---- MODULE Spec2Model ----
(***************************************************************************)
(* SandboxManager (src/agent/core/sandbox_manager.py): the registry of     *)
(* provider sandboxes, the datastore table 'sandboxes', the event sink and *)
(* the requests served against them.                                       *)
(*                                                                         *)
(* A request runs as a sequence of steps.  Each step is one external call  *)
(* of the request (datastore, provider, event sink) together with the      *)
(* local statements around it; the manager holds no lock and no            *)
(* transaction, and the datastore is shared by everything that serves      *)
(* requests, so the steps of different requests interleave.                *)
(*                                                                         *)
(* RealtimeTestStreamer (src/agent/tests/plugins/realtime_streaming.py):   *)
(* the streamer of test events to the datastore table 'logs', the pytest   *)
(* hooks that drive it, and the test code that calls it directly.          *)
(***************************************************************************)
EXTENDS Integers, Sequences, FiniteSets, TLC

\* ---------------------------------------------------------------- bounds
MaxSandboxes == 4        \* sandboxes the provider hands out in one run
MaxRequests == 3         \* requests started in one run
MaxTime == 2             \* clock ticks in one run
MaxExecs == 1            \* execute_code requests started in one run
MaxLines == 2            \* output lines of one execution
MaxPathLen == 2          \* words of a test path
MaxCalls == 2            \* session calls after which the test code makes no more

\* ------------------------------------------------------ program constants
max_sandboxes_per_user == 3   \* MAX_SANDBOXES_PER_USER, line 47
TTL == 1                      \* timedelta(hours=1) of line 90, in clock ticks
coverage_threshold == 80      \* realtime_streaming.py lines 157, 169, 179, 301
placeholder_coverage == 85    \* realtime_streaming.py line 296

Callers == {"a", "b"}    \* requests in flight at the same time
ExecCallers == {"a"}     \* where code execution is served one request at a time
SandboxIds == 1..MaxSandboxes
Users == {"u1", "u2"}
SweepUsers == {"u1"}     \* the owners of the specifications with one owner
Codes == {"print(1)", "import os"}
Streams == {"stdout", "stderr"}
FileOps == {"list_files", "read_file", "write_file"}
Paths == {<<"home", "user", "a.txt">>, <<"home", "..", "..", "etc", "passwd">>}
PackageLists == {<<"requests">>, <<"requests", "flask">>, <<"requests", "flask; sh">>}

VARIABLES
    now,               \* datetime.utcnow()
    nextId,            \* the id the provider gives its next sandbox
    handle,            \* provider side: id -> "none" | "open" | "closed"
    closeCalls,        \* provider side: id -> number of close() invocations
    active_sandboxes,  \* self.active_sandboxes: the set of registered ids
    sandbox_metadata,  \* self.sandbox_metadata: id -> sandbox_data
    table,             \* datastore table 'sandboxes': id -> row
    sink,              \* events delivered to the sink, in order of arrival
    tasks,             \* the event loop's queue of asyncio.create_task(...) tasks
    req,               \* caller -> the request it is serving
    started,           \* requests started so far
    supabase,          \* the streamer's client, the table 'logs', its insert calls
    streamer,          \* RealtimeTestStreamer: test_results, category_counts
    run                \* the pytest session and the test code driving the streamer

manager_vars == <<now, nextId, handle, closeCalls, active_sandboxes,
                  sandbox_metadata, table, sink, tasks, req, started>>

plugin_vars == <<supabase, streamer, run>>

vars == <<now, nextId, handle, closeCalls, active_sandboxes, sandbox_metadata,
          table, sink, tasks, req, started, supabase, streamer, run>>

\* ------------------------------------------------------------- requests
\* A caller with no request: the arguments and locals of a request at their
\* empty values (sid 0: no sandbox yet).  starts and fs count the calls of
\* process.start and of filesystem.list / read / write the request has made.
Idle ==
    [op |-> "idle", pc |-> "idle", user_id |-> "", sid |-> 0, ret |-> "none",
     removed |-> FALSE, selected |-> {}, todo |-> {}, cleaned |-> 0,
     code |-> "", stream |-> FALSE, exec |-> 0, starts |-> 0,
     provider_ok |-> FALSE, lost |-> FALSE, lines |-> <<>>, exit_code |-> 0,
     path |-> <<>>, packages |-> <<>>, fs |-> 0]

\* Rows of the datastore table with status 'running'.
RunningRows == {i \in DOMAIN table : table[i].status = "running"}

\* result.count of select('id', count='exact').eq('user_id', u).eq('status', 'running')
get_user_sandbox_count(user_id) ==
    Cardinality({i \in RunningRows : table[i].user_id = user_id})

\* RealtimeStreamer.stream_sandbox_event / stream_log: best-effort delivery
\* to the sink, which keeps the events in the order of their emission.
StreamerEmit(ev, delivered) ==
    sink' = IF delivered THEN Append(sink, ev) ELSE sink

\* EmitRaises of a streamer that lets a sink failure through.
EmitRaisesOnFailure(delivered) == ~delivered

\* Whether an emission raises into its caller: never, a sink failure is
\* caught, logged and discarded inside the streamer.
EmitRaises(delivered) == FALSE

\* An event record.  exec numbers the execute_code call an event belongs to
\* (0 for the lifecycle events), message is the output line's number.
Event(type, sandbox_id, exec, message) ==
    [type |-> type, sandbox_id |-> sandbox_id, exec |-> exec, message |-> message]

Finish(c, ret) == req' = [req EXCEPT ![c].pc = "done", ![c].ret = ret]

\* ------------------------------------------------------- create_sandbox
CallCreate(c, user_id) ==
    /\ req[c].pc = "idle"
    /\ started < MaxRequests
    /\ started' = started + 1
    /\ req' = [req EXCEPT ![c] = [Idle EXCEPT !.op = "create", !.pc = "c_count",
                                              !.user_id = user_id]]
    /\ UNCHANGED <<plugin_vars, now, nextId, handle, closeCalls, active_sandboxes,
                   sandbox_metadata, table, sink, tasks>>

\* CreateCheckLimit of a check that refuses only above the cap.
CreateCheckLimitAboveCap(c) ==
    /\ req[c].pc = "c_count"
    /\ IF get_user_sandbox_count(req[c].user_id) > max_sandboxes_per_user
       THEN Finish(c, "quota")
       ELSE req' = [req EXCEPT ![c].pc = "c_provider"]
    /\ UNCHANGED <<plugin_vars, now, nextId, handle, closeCalls, active_sandboxes,
                   sandbox_metadata, table, sink, tasks, started>>

\* lines 61-63: the quota check against the datastore's running count, which
\* raises "User has reached maximum sandbox limit".
CreateCheckLimit(c) ==
    /\ req[c].pc = "c_count"
    /\ IF get_user_sandbox_count(req[c].user_id) >= max_sandboxes_per_user
       THEN Finish(c, "quota")
       ELSE req' = [req EXCEPT ![c].pc = "c_provider"]
    /\ UNCHANGED <<plugin_vars, now, nextId, handle, closeCalls, active_sandboxes,
                   sandbox_metadata, table, sink, tasks, started>>

\* line 72: SandboxSync(template=...), which may raise.
CreateProvider(c) ==
    /\ req[c].pc = "c_provider"
    /\ \/ /\ nextId <= MaxSandboxes
          /\ handle' = [handle EXCEPT ![nextId] = "open"]
          /\ nextId' = nextId + 1
          /\ req' = [req EXCEPT ![c].pc = "c_insert", ![c].sid = nextId]
       \/ /\ Finish(c, "raised")
          /\ UNCHANGED <<handle, nextId>>
    /\ UNCHANGED <<plugin_vars, now, closeCalls, active_sandboxes, sandbox_metadata, table,
                   sink, tasks, started>>

\* lines 79-95: sandbox_data.
SandboxData(c) ==
    [user_id |-> req[c].user_id, status |-> "running",
     last_activity_at |-> now, expires_at |-> now + TTL]

\* CreateInsert with the sandbox registered before the row is inserted.
CreateInsertRegisterFirst(c) ==
    /\ req[c].pc = "c_insert"
    /\ active_sandboxes' = active_sandboxes \cup {req[c].sid}
    /\ sandbox_metadata' = (req[c].sid :> SandboxData(c)) @@ sandbox_metadata
    /\ \/ /\ table' = (req[c].sid :> SandboxData(c)) @@ table
          /\ req' = [req EXCEPT ![c].pc = "c_emit"]
       \/ /\ Finish(c, "raised")
          /\ UNCHANGED table
    /\ UNCHANGED <<plugin_vars, now, nextId, handle, closeCalls, sink, tasks, started>>

\* lines 98-102: insert the row (may raise), then register the sandbox.
CreateInsert(c) ==
    /\ req[c].pc = "c_insert"
    /\ \/ /\ table' = (req[c].sid :> SandboxData(c)) @@ table
          /\ active_sandboxes' = active_sandboxes \cup {req[c].sid}
          /\ sandbox_metadata' = (req[c].sid :> SandboxData(c)) @@ sandbox_metadata
          /\ req' = [req EXCEPT ![c].pc = "c_emit"]
       \/ /\ Finish(c, "raised")
          /\ UNCHANGED <<table, active_sandboxes, sandbox_metadata>>
    /\ UNCHANGED <<plugin_vars, now, nextId, handle, closeCalls, sink, tasks, started>>

\* lines 107-130: stream 'sandbox_created', return the description.
CreateEmit(c) ==
    /\ req[c].pc = "c_emit"
    /\ \E delivered \in BOOLEAN :
          /\ StreamerEmit(Event("sandbox_created", req[c].sid, 0, 0), delivered)
          /\ Finish(c, IF EmitRaises(delivered) THEN "raised" ELSE "ok")
    /\ UNCHANGED <<plugin_vars, now, nextId, handle, closeCalls, active_sandboxes,
                   sandbox_metadata, table, tasks, started>>

\* ------------------------------------------------------ destroy_sandbox
CallDestroy(c, sandbox_id) ==
    /\ req[c].pc = "idle"
    /\ started < MaxRequests
    /\ started' = started + 1
    /\ req' = [req EXCEPT ![c] = [Idle EXCEPT !.op = "destroy", !.pc = "d_close",
                                              !.sid = sandbox_id]]
    /\ UNCHANGED <<plugin_vars, now, nextId, handle, closeCalls, active_sandboxes,
                   sandbox_metadata, table, sink, tasks>>

\* DestroyResult of a destroy_sandbox without its except clause.
DestroyResultUncaught(c, r) ==
    [req[c] EXCEPT !.pc = "done", !.ret = IF r = "False" THEN "raised" ELSE r]

\* destroy_sandbox is over with result r: the caller of destroy_sandbox gets
\* it, and the sweep (lines 408-409) counts it and goes on with its loop.
DestroyResult(c, r) ==
    IF req[c].op = "cleanup"
    THEN [req[c] EXCEPT !.pc = "k_loop",
                        !.cleaned = IF r = "True" THEN @ + 1 ELSE @]
    ELSE [req[c] EXCEPT !.pc = "done", !.ret = r]

Without(f, i) == [j \in DOMAIN f \ {i} |-> f[j]]

\* DestroyClose of a destroy_sandbox that goes on to the datastore update
\* when the close raises.
DestroyCloseIgnoringFailure(c) ==
    /\ req[c].pc = "d_close"
    /\ IF req[c].sid \in active_sandboxes
       THEN /\ closeCalls' = [closeCalls EXCEPT ![req[c].sid] = @ + 1]
            /\ \/ /\ handle' = [handle EXCEPT ![req[c].sid] = "closed"]
                  /\ active_sandboxes' = active_sandboxes \ {req[c].sid}
                  /\ sandbox_metadata' = Without(sandbox_metadata, req[c].sid)
                  /\ req' = [req EXCEPT ![c].pc = "d_update", ![c].removed = TRUE]
               \/ /\ \E h \in {handle[req[c].sid], "closed"} :
                        handle' = [handle EXCEPT ![req[c].sid] = h]
                  /\ req' = [req EXCEPT ![c].pc = "d_update"]
                  /\ UNCHANGED <<active_sandboxes, sandbox_metadata>>
       ELSE /\ sandbox_metadata' = Without(sandbox_metadata, req[c].sid)
            /\ req' = [req EXCEPT ![c].pc = "d_update"]
            /\ UNCHANGED <<closeCalls, handle, active_sandboxes>>
    /\ UNCHANGED <<plugin_vars, now, nextId, table, sink, tasks, started>>

\* DestroyClose of a destroy_sandbox that drops the sandbox from
\* active_sandboxes only.
DestroyCloseKeepingMetadata(c) ==
    /\ req[c].pc = "d_close"
    /\ IF req[c].sid \in active_sandboxes
       THEN /\ closeCalls' = [closeCalls EXCEPT ![req[c].sid] = @ + 1]
            /\ \/ /\ handle' = [handle EXCEPT ![req[c].sid] = "closed"]
                  /\ active_sandboxes' = active_sandboxes \ {req[c].sid}
                  /\ req' = [req EXCEPT ![c].pc = "d_update", ![c].removed = TRUE]
                  /\ UNCHANGED sandbox_metadata
               \/ /\ \E h \in {handle[req[c].sid], "closed"} :
                        handle' = [handle EXCEPT ![req[c].sid] = h]
                  /\ req' = [req EXCEPT ![c] = DestroyResult(c, "False")]
                  /\ UNCHANGED <<active_sandboxes, sandbox_metadata>>
       ELSE /\ req' = [req EXCEPT ![c].pc = "d_update"]
            /\ UNCHANGED <<closeCalls, handle, active_sandboxes, sandbox_metadata>>
    /\ UNCHANGED <<plugin_vars, now, nextId, table, sink, tasks, started>>

\* lines 367-374: close the handle of a registered sandbox (close() may
\* raise, having closed the sandbox or not), then drop it from both maps.
DestroyClose(c) ==
    /\ req[c].pc = "d_close"
    /\ IF req[c].sid \in active_sandboxes
       THEN /\ closeCalls' = [closeCalls EXCEPT ![req[c].sid] = @ + 1]
            /\ \/ /\ handle' = [handle EXCEPT ![req[c].sid] = "closed"]
                  /\ active_sandboxes' = active_sandboxes \ {req[c].sid}
                  /\ sandbox_metadata' = Without(sandbox_metadata, req[c].sid)
                  /\ req' = [req EXCEPT ![c].pc = "d_update", ![c].removed = TRUE]
               \/ /\ \E h \in {handle[req[c].sid], "closed"} :
                        handle' = [handle EXCEPT ![req[c].sid] = h]
                  /\ req' = [req EXCEPT ![c] = DestroyResult(c, "False")]
                  /\ UNCHANGED <<active_sandboxes, sandbox_metadata>>
       ELSE /\ sandbox_metadata' = Without(sandbox_metadata, req[c].sid)
            /\ req' = [req EXCEPT ![c].pc = "d_update"]
            /\ UNCHANGED <<closeCalls, handle, active_sandboxes>>
    /\ UNCHANGED <<plugin_vars, now, nextId, table, sink, tasks, started>>

\* lines 377-380: update(...).eq('e2b_sandbox_id', sandbox_id), which may raise.
DestroyUpdate(c) ==
    /\ req[c].pc = "d_update"
    /\ \/ /\ table' = [i \in DOMAIN table |->
                          IF i = req[c].sid
                          THEN [table[i] EXCEPT !.status = "stopped",
                                                !.last_activity_at = now]
                          ELSE table[i]]
          /\ req' = [req EXCEPT ![c].pc = "d_emit"]
       \/ /\ req' = [req EXCEPT ![c] = DestroyResult(c, "False")]
          /\ UNCHANGED table
    /\ UNCHANGED <<plugin_vars, now, nextId, handle, closeCalls, active_sandboxes,
                   sandbox_metadata, sink, tasks, started>>

\* lines 383-394: stream 'sandbox_destroyed', return True.
DestroyEmit(c) ==
    /\ req[c].pc = "d_emit"
    /\ \E delivered \in BOOLEAN :
          /\ StreamerEmit(Event("sandbox_destroyed", req[c].sid, 0, 0), delivered)
          /\ req' = [req EXCEPT ![c] = DestroyResult(c,
                         IF EmitRaises(delivered) THEN "False" ELSE "True")]
    /\ UNCHANGED <<plugin_vars, now, nextId, handle, closeCalls, active_sandboxes,
                   sandbox_metadata, table, tasks, started>>

\* -------------------------------------------- cleanup_expired_sandboxes
CallCleanup(c) ==
    /\ req[c].pc = "idle"
    /\ started < MaxRequests
    /\ started' = started + 1
    /\ req' = [req EXCEPT ![c] = [Idle EXCEPT !.op = "cleanup", !.pc = "k_select"]]
    /\ UNCHANGED <<plugin_vars, now, nextId, handle, closeCalls, active_sandboxes,
                   sandbox_metadata, table, sink, tasks>>

\* ExpiredRows of a query without the expiry filter.
ExpiredRowsAnyExpiry == RunningRows

\* lines 401-403: select('*').lt('expires_at', now).eq('status', 'running')
ExpiredRows == {i \in RunningRows : table[i].expires_at < now}

\* lines 399-405 and 414-416: the query, which may raise (the sweep returns 0).
CleanupSelect(c) ==
    /\ req[c].pc = "k_select"
    /\ \/ req' = [req EXCEPT ![c].pc = "k_loop", ![c].selected = ExpiredRows,
                             ![c].todo = ExpiredRows]
       \/ Finish(c, "count")
    /\ UNCHANGED <<plugin_vars, now, nextId, handle, closeCalls, active_sandboxes,
                   sandbox_metadata, table, sink, tasks, started>>

\* lines 406-412: the next row of result.data, or the count when none is left.
CleanupLoop(c) ==
    /\ req[c].pc = "k_loop"
    /\ IF req[c].todo = {}
       THEN Finish(c, "count")
       ELSE \E i \in req[c].todo :
               req' = [req EXCEPT ![c].pc = "d_close", ![c].sid = i,
                                  ![c].removed = FALSE, ![c].todo = @ \ {i}]
    /\ UNCHANGED <<plugin_vars, now, nextId, handle, closeCalls, active_sandboxes,
                   sandbox_metadata, table, sink, tasks, started>>

\* --------------------------------------------------------- execute_code
\* line 285 and line 289: the command install_packages hands to execute_code.
InstallCode(packages) ==
    CASE packages = <<"requests">> ->
           "import subprocess; subprocess.run('pip install requests', shell=True)"
      [] packages = <<"requests", "flask">> ->
           "import subprocess; subprocess.run('pip install requests flask', shell=True)"
      [] packages = <<"requests", "flask; sh">> ->
           "import subprocess; subprocess.run('pip install requests flask; sh', shell=True)"

\* The ruleset of the validator is an external collaborator: here it accepts
\* print(1) and the installation of requests, and nothing else.
SafeCodes ==
    {"print(1)", "import subprocess; subprocess.run('pip install requests', shell=True)"}

\* SecurityValidator.validate_code: a pure function of the code string.
validate_code(code) == [is_safe |-> code \in SafeCodes]

\* SecurityValidator.is_safe_package_name: a pure function of the name.
is_safe_package_name(package) == package \in {"requests", "flask"}

\* SecurityValidator.is_safe_file_path: a pure function of the path, which
\* rejects a path that climbs out of its directory.
is_safe_file_path(file_path) == \A k \in 1..Len(file_path) : file_path[k] # ".."

CallExecute(c, sandbox_id, code, stream_output) ==
    /\ req[c].pc = "idle"
    /\ started < MaxExecs
    /\ started' = started + 1
    /\ req' = [req EXCEPT ![c] = [Idle EXCEPT !.op = "execute", !.pc = "e_begin",
                                              !.sid = sandbox_id, !.code = code,
                                              !.stream = stream_output,
                                              !.exec = started + 1]]
    /\ UNCHANGED <<plugin_vars, now, nextId, handle, closeCalls, active_sandboxes,
                   sandbox_metadata, table, sink, tasks>>

\* ExecBegin without the security validation.
ExecBeginUnvalidated(c) ==
    /\ req[c].pc = "e_begin"
    /\ IF req[c].sid \notin active_sandboxes
       THEN Finish(c, "raised")
       ELSE req' = [req EXCEPT ![c].pc = "e_touch"]
    /\ UNCHANGED <<plugin_vars, now, nextId, handle, closeCalls, active_sandboxes,
                   sandbox_metadata, table, sink, tasks, started>>

\* lines 141-161: the registry lookup, then the security validation.
ExecBegin(c) ==
    /\ req[c].pc = "e_begin"
    /\ IF req[c].sid \notin active_sandboxes
       THEN Finish(c, "raised")
       ELSE IF ~validate_code(req[c].code).is_safe
       THEN IF req[c].stream
            THEN req' = [req EXCEPT ![c].pc = "e_warn"]
            ELSE Finish(c, "raised")
       ELSE req' = [req EXCEPT ![c].pc = "e_touch"]
    /\ UNCHANGED <<plugin_vars, now, nextId, handle, closeCalls, active_sandboxes,
                   sandbox_metadata, table, sink, tasks, started>>

\* lines 151-159: stream 'security_warning', then raise.
ExecWarn(c) ==
    /\ req[c].pc = "e_warn"
    /\ \E delivered \in BOOLEAN :
          /\ StreamerEmit(Event("security_warning", req[c].sid, req[c].exec, 0),
                          delivered)
          /\ req' = [req EXCEPT ![c].pc = "done", ![c].ret = "raised",
                                ![c].lost = ~delivered]
    /\ UNCHANGED <<plugin_vars, now, nextId, handle, closeCalls, active_sandboxes,
                   sandbox_metadata, table, tasks, started>>

\* ExecTouch of an execute_code that goes to the provider without the
\* activity refresh.
ExecTouchSkipped(c) ==
    /\ req[c].pc = "e_touch"
    /\ req' = [req EXCEPT ![c].pc = IF req[c].stream THEN "e_start" ELSE "e_run"]
    /\ UNCHANGED <<plugin_vars, now, nextId, handle, closeCalls, active_sandboxes,
                   sandbox_metadata, table, sink, tasks, started>>

\* ExecTouch of a refresh that also renews the lease.
ExecTouchRenewing(c) ==
    /\ req[c].pc = "e_touch"
    /\ \/ /\ table' = [i \in DOMAIN table |->
                          IF i = req[c].sid
                          THEN [table[i] EXCEPT !.last_activity_at = now,
                                                !.expires_at = now + TTL]
                          ELSE table[i]]
          /\ req' = [req EXCEPT ![c].pc = IF req[c].stream THEN "e_start" ELSE "e_run"]
       \/ /\ req' = [req EXCEPT ![c].pc = "e_error"]
          /\ UNCHANGED table
    /\ UNCHANGED <<plugin_vars, now, nextId, handle, closeCalls, active_sandboxes,
                   sandbox_metadata, sink, tasks, started>>

\* lines 165 and 427-432: _update_sandbox_activity, whose update may raise.
ExecTouch(c) ==
    /\ req[c].pc = "e_touch"
    /\ \/ /\ table' = [i \in DOMAIN table |->
                          IF i = req[c].sid
                          THEN [table[i] EXCEPT !.last_activity_at = now]
                          ELSE table[i]]
          /\ req' = [req EXCEPT ![c].pc = IF req[c].stream THEN "e_start" ELSE "e_run"]
       \/ /\ req' = [req EXCEPT ![c].pc = "e_error"]
          /\ UNCHANGED table
    /\ UNCHANGED <<plugin_vars, now, nextId, handle, closeCalls, active_sandboxes,
                   sandbox_metadata, sink, tasks, started>>

\* lines 168-174: stream 'code_execution_start'.
ExecStart(c) ==
    /\ req[c].pc = "e_start"
    /\ \E delivered \in BOOLEAN :
          /\ StreamerEmit(Event("code_execution_start", req[c].sid, req[c].exec, 0),
                          delivered)
          /\ req' = [req EXCEPT ![c].pc = IF EmitRaises(delivered)
                                          THEN "e_error" ELSE "e_run",
                                ![c].lost = @ \/ ~delivered]
    /\ UNCHANGED <<plugin_vars, now, nextId, handle, closeCalls, active_sandboxes,
                   sandbox_metadata, table, tasks, started>>

\* The output of one process: which stream each of its lines goes to.
Outputs == UNION {[1..n -> Streams] : n \in 0..MaxLines}

\* The number of line k within its own stream.
LineNo(lines, k) == Cardinality({j \in 1..k : lines[j] = lines[k]})

\* lines 241-257: on_stdout / on_stderr hand each line to
\* asyncio.create_task(stream_log(...)), which queues the task on the loop.
LineTasks(c, lines) ==
    [k \in 1..Len(lines) |-> Event(lines[k], req[c].sid, req[c].exec, LineNo(lines, k))]

\* lines 176-198 and 259-271: sandbox.process.start, which calls the line
\* callbacks while it runs and returns the exit code or raises.  Without
\* streaming nothing follows the call but the return of the result, and a
\* call that raises leaves no exit code and, without streaming, no output.
ExecRun(c) ==
    /\ req[c].pc = "e_run"
    /\ \E lines \in Outputs, exit_code \in {0, 1}, raised \in BOOLEAN :
          /\ raised => (exit_code = 0 /\ (~req[c].stream => lines = <<>>))
          /\ tasks' = IF req[c].stream THEN tasks \o LineTasks(c, lines) ELSE tasks
          /\ req' = [req EXCEPT
                ![c].starts = @ + 1,
                ![c].lines = lines,
                ![c].provider_ok = ~raised,
                ![c].exit_code = IF raised THEN 0 ELSE exit_code,
                ![c].pc = IF raised THEN "e_error"
                          ELSE IF req[c].stream THEN "e_complete" ELSE "done",
                ![c].ret = IF ~raised /\ ~req[c].stream THEN "ok" ELSE @]
    /\ UNCHANGED <<plugin_vars, now, nextId, handle, closeCalls, active_sandboxes,
                   sandbox_metadata, table, sink, started>>

\* ExecComplete of an execute_code in which a statement after the emission
\* of 'code_execution_complete' raises inside the try block.
ExecCompleteThenRaise(c) ==
    /\ req[c].pc = "e_complete"
    /\ \E delivered \in BOOLEAN :
          /\ StreamerEmit(Event("code_execution_complete", req[c].sid, req[c].exec, 0),
                          delivered)
          /\ req' = [req EXCEPT ![c].pc = "e_error",
                                ![c].lost = @ \/ ~delivered]
    /\ UNCHANGED <<plugin_vars, now, nextId, handle, closeCalls, active_sandboxes,
                   sandbox_metadata, table, tasks, started>>

\* lines 200-211: stream 'code_execution_complete', return the result.
ExecComplete(c) ==
    /\ req[c].pc = "e_complete"
    /\ \E delivered \in BOOLEAN :
          /\ StreamerEmit(Event("code_execution_complete", req[c].sid, req[c].exec, 0),
                          delivered)
          /\ req' = [req EXCEPT ![c].pc = IF EmitRaises(delivered)
                                          THEN "e_error" ELSE "done",
                                ![c].ret = IF EmitRaises(delivered) THEN @ ELSE "ok",
                                ![c].lost = @ \/ ~delivered]
    /\ UNCHANGED <<plugin_vars, now, nextId, handle, closeCalls, active_sandboxes,
                   sandbox_metadata, table, tasks, started>>

\* ExecError of an except branch that streams 'code_execution_error'
\* whether or not the caller asked for streaming.
ExecErrorAlwaysEmits(c) ==
    /\ req[c].pc = "e_error"
    /\ \E delivered \in BOOLEAN :
          /\ StreamerEmit(Event("code_execution_error", req[c].sid, req[c].exec, 0),
                          delivered)
          /\ req' = [req EXCEPT ![c].pc = "done", ![c].ret = "raised",
                                ![c].lost = @ \/ ~delivered]
    /\ UNCHANGED <<plugin_vars, now, nextId, handle, closeCalls, active_sandboxes,
                   sandbox_metadata, table, tasks, started>>

\* lines 213-226: the except branch streams 'code_execution_error' when
\* streaming, and raises.
ExecError(c) ==
    /\ req[c].pc = "e_error"
    /\ IF req[c].stream
       THEN \E delivered \in BOOLEAN :
               /\ StreamerEmit(Event("code_execution_error", req[c].sid, req[c].exec, 0),
                               delivered)
               /\ req' = [req EXCEPT ![c].pc = "done", ![c].ret = "raised",
                                     ![c].lost = @ \/ ~delivered]
       ELSE /\ Finish(c, "raised")
            /\ UNCHANGED sink
    /\ UNCHANGED <<plugin_vars, now, nextId, handle, closeCalls, active_sandboxes,
                   sandbox_metadata, table, tasks, started>>

\* RunTask of a loop that runs its tasks newest first.
RunNewestTask ==
    /\ tasks # <<>>
    /\ \E delivered \in BOOLEAN : StreamerEmit(tasks[Len(tasks)], delivered)
    /\ tasks' = SubSeq(tasks, 1, Len(tasks) - 1)
    /\ UNCHANGED <<plugin_vars, now, nextId, handle, closeCalls, active_sandboxes,
                   sandbox_metadata, table, req, started>>

\* The event loop runs the task at the head of its queue: the stream_log of
\* one output line (lines 244-248 and 253-257).
RunTask ==
    /\ tasks # <<>>
    /\ \E delivered \in BOOLEAN : StreamerEmit(Head(tasks), delivered)
    /\ tasks' = Tail(tasks)
    /\ UNCHANGED <<plugin_vars, now, nextId, handle, closeCalls, active_sandboxes,
                   sandbox_metadata, table, req, started>>

\* ----------------------------------------------------- install_packages
CallInstall(c, sandbox_id, packages) ==
    /\ req[c].pc = "idle"
    /\ started < MaxExecs
    /\ started' = started + 1
    /\ req' = [req EXCEPT ![c] = [Idle EXCEPT !.op = "install", !.pc = "i_begin",
                                              !.sid = sandbox_id,
                                              !.packages = packages,
                                              !.exec = started + 1]]
    /\ UNCHANGED <<plugin_vars, now, nextId, handle, closeCalls, active_sandboxes,
                   sandbox_metadata, table, sink, tasks>>

\* InstallBegin without the check of the package names.
InstallBeginUnchecked(c) ==
    /\ req[c].pc = "i_begin"
    /\ IF req[c].sid \notin active_sandboxes
       THEN Finish(c, "raised")
       ELSE req' = [req EXCEPT
                ![c].code = InstallCode(req[c].packages),
                ![c].stream = TRUE,
                ![c].pc = IF validate_code(InstallCode(req[c].packages)).is_safe
                          THEN "e_touch" ELSE "e_warn"]
    /\ UNCHANGED <<plugin_vars, now, nextId, handle, closeCalls, active_sandboxes,
                   sandbox_metadata, table, sink, tasks, started>>

\* lines 276-291, then lines 141-161 of the execute_code it calls with
\* stream_output=True: the registry lookup, the check of every package name,
\* and the security validation of the install command.
InstallBegin(c) ==
    /\ req[c].pc = "i_begin"
    /\ IF req[c].sid \notin active_sandboxes
       THEN Finish(c, "raised")
       ELSE IF \E k \in 1..Len(req[c].packages) :
                  ~is_safe_package_name(req[c].packages[k])
       THEN Finish(c, "raised")
       ELSE req' = [req EXCEPT
                ![c].code = InstallCode(req[c].packages),
                ![c].stream = TRUE,
                ![c].pc = IF validate_code(InstallCode(req[c].packages)).is_safe
                          THEN "e_touch" ELSE "e_warn"]
    /\ UNCHANGED <<plugin_vars, now, nextId, handle, closeCalls, active_sandboxes,
                   sandbox_metadata, table, sink, tasks, started>>

\* ------------------------------------ list_files, read_file, write_file
CallFile(c, op, sandbox_id, file_path) ==
    /\ req[c].pc = "idle"
    /\ started < MaxRequests
    /\ started' = started + 1
    /\ req' = [req EXCEPT ![c] = [Idle EXCEPT !.op = op, !.pc = "f_begin",
                                              !.sid = sandbox_id,
                                              !.path = file_path]]
    /\ UNCHANGED <<plugin_vars, now, nextId, handle, closeCalls, active_sandboxes,
                   sandbox_metadata, table, sink, tasks>>

\* A call on the provider's filesystem: it succeeds or raises, and raises on
\* a handle that is closed.
FilesystemCall(c, ok, pcOk, retOk) ==
    /\ ok => handle[req[c].sid] = "open"
    /\ req' = [req EXCEPT ![c].fs = @ + 1,
                          ![c].pc = IF ok THEN pcOk ELSE "done",
                          ![c].ret = IF ok THEN retOk ELSE "raised"]

\* ListFiles without the registry lookup.
ListFilesNoLookup(c) ==
    /\ req[c].pc = "f_begin" /\ req[c].op = "list_files"
    /\ \E ok \in BOOLEAN : FilesystemCall(c, ok, "done", "ok")
    /\ UNCHANGED <<plugin_vars, now, nextId, handle, closeCalls, active_sandboxes,
                   sandbox_metadata, table, sink, tasks, started>>

\* lines 296-316: the registry lookup, then filesystem.list(path).
ListFiles(c) ==
    /\ req[c].pc = "f_begin" /\ req[c].op = "list_files"
    /\ IF req[c].sid \notin active_sandboxes
       THEN Finish(c, "raised")
       ELSE \E ok \in BOOLEAN : FilesystemCall(c, ok, "done", "ok")
    /\ UNCHANGED <<plugin_vars, now, nextId, handle, closeCalls, active_sandboxes,
                   sandbox_metadata, table, sink, tasks, started>>

\* lines 321-334: the registry lookup, the path validation, then
\* filesystem.read(file_path).
ReadFile(c) ==
    /\ req[c].pc = "f_begin" /\ req[c].op = "read_file"
    /\ IF req[c].sid \notin active_sandboxes
       THEN Finish(c, "raised")
       ELSE IF ~is_safe_file_path(req[c].path)
       THEN Finish(c, "raised")
       ELSE \E ok \in BOOLEAN : FilesystemCall(c, ok, "done", "ok")
    /\ UNCHANGED <<plugin_vars, now, nextId, handle, closeCalls, active_sandboxes,
                   sandbox_metadata, table, sink, tasks, started>>

\* WriteFile without the path validation.
WriteFileUnvalidated(c) ==
    /\ req[c].pc = "f_begin" /\ req[c].op = "write_file"
    /\ IF req[c].sid \notin active_sandboxes
       THEN Finish(c, "raised")
       ELSE \E ok \in BOOLEAN : FilesystemCall(c, ok, "w_emit", "none")
    /\ UNCHANGED <<plugin_vars, now, nextId, handle, closeCalls, active_sandboxes,
                   sandbox_metadata, table, sink, tasks, started>>

\* lines 339-349: the registry lookup, the path validation, then
\* filesystem.write(file_path, content).
WriteFile(c) ==
    /\ req[c].pc = "f_begin" /\ req[c].op = "write_file"
    /\ IF req[c].sid \notin active_sandboxes
       THEN Finish(c, "raised")
       ELSE IF ~is_safe_file_path(req[c].path)
       THEN Finish(c, "raised")
       ELSE \E ok \in BOOLEAN : FilesystemCall(c, ok, "w_emit", "none")
    /\ UNCHANGED <<plugin_vars, now, nextId, handle, closeCalls, active_sandboxes,
                   sandbox_metadata, table, sink, tasks, started>>

\* lines 351-360: stream 'file_write', return True.
WriteEmit(c) ==
    /\ req[c].pc = "w_emit"
    /\ \E delivered \in BOOLEAN :
          /\ StreamerEmit(Event("file_write", req[c].sid, 0, 0), delivered)
          /\ req' = [req EXCEPT ![c].pc = "done",
                                ![c].ret = IF EmitRaises(delivered)
                                           THEN "raised" ELSE "True",
                                ![c].lost = ~delivered]
    /\ UNCHANGED <<plugin_vars, now, nextId, handle, closeCalls, active_sandboxes,
                   sandbox_metadata, table, tasks, started>>

\* The caller takes the result; the request is over.
\* lines 434-447: the metadata of every id of sandbox_metadata that is also
\* in active_sandboxes, each marked is_active.
get_active_sandboxes ==
    [i \in {j \in DOMAIN sandbox_metadata : j \in active_sandboxes} |->
        [user_id |-> sandbox_metadata[i].user_id,
         status |-> sandbox_metadata[i].status,
         last_activity_at |-> sandbox_metadata[i].last_activity_at,
         expires_at |-> sandbox_metadata[i].expires_at,
         is_active |-> TRUE]]

None == [none |-> TRUE]

\* get_sandbox_status answering from the rows of the table instead of the
\* registry.
get_sandbox_status_from_rows(sandbox_id) ==
    IF sandbox_id \notin DOMAIN table
    THEN None
    ELSE [sandbox_id |-> sandbox_id, status |-> "running",
          last_activity |-> table[sandbox_id].last_activity_at,
          expires_at |-> table[sandbox_id].expires_at]

\* lines 449-466: None for an id that is not in active_sandboxes, else a
\* 'running' status built from the id's metadata.
get_sandbox_status(sandbox_id) ==
    IF sandbox_id \notin active_sandboxes
    THEN None
    ELSE [sandbox_id |-> sandbox_id, status |-> "running",
          last_activity |-> sandbox_metadata[sandbox_id].last_activity_at,
          expires_at |-> sandbox_metadata[sandbox_id].expires_at]

\* lines 79-95, 132-226: the commands-executed count that the manager keeps
\* for a sandbox; sandbox_data has no such key and execute_code writes none.
commands_executed(sandbox_id) ==
    IF "commands_executed" \in DOMAIN sandbox_metadata[sandbox_id]
    THEN sandbox_metadata[sandbox_id].commands_executed
    ELSE 0

Return(c) ==
    /\ req[c].pc = "done"
    /\ req' = [req EXCEPT ![c] = Idle]
    /\ UNCHANGED <<plugin_vars, now, nextId, handle, closeCalls, active_sandboxes,
                   sandbox_metadata, table, sink, tasks, started>>

Tick ==
    /\ now < MaxTime
    /\ now' = now + 1
    /\ UNCHANGED <<plugin_vars, nextId, handle, closeCalls, active_sandboxes,
                   sandbox_metadata, table, sink, tasks, req, started>>

\* ------------------------------------------------- the test-run streamer
\* RealtimeTestStreamer and the pytest hooks of
\* src/agent/tests/plugins/realtime_streaming.py, with the pytest run that
\* calls the hooks and the test code that calls the streamer directly.

Tests == {"t1", "t2"}                     \* the collected items (node ids)
Categories == {"unit", "integration", "functional", "security", "performance"}
ExcInfos == {"None", "Exception", "Skipped"}   \* call.excinfo of a phase
CallResults == {"None", "skipped"}        \* call.result of a phase that returned
Coverages == {75, 80, 85}                 \* coverage percentages
Counts == {0, 1}                          \* numbers of passed / failed / skipped

\* str(item.fspath) of the collected items, as the words of the path.
fspath == [t \in Tests |-> IF t = "t1" THEN <<"tests", "unit", "test_a.py">>
                           ELSE <<"tests", "integration", "test_a.py">>]

\* The words a test path is made of, and the paths of up to MaxPathLen words.
Words == {"tests", "misc", "unit", "Integration", "integration", "functional",
          "security", "performance", "test_security.py"}
TestPaths == UNION {[1..n -> Words] : n \in 0..MaxPathLen}

\* str.lower() of a word, and of a path.
LowerWord(w) == IF w = "Integration" THEN "integration" ELSE w
Lower(test_path) == [k \in 1..Len(test_path) |-> LowerWord(test_path[k])]

\* token in test_path: the token is a substring of one of the words.
HasToken(test_path, token) ==
    \E k \in 1..Len(test_path) :
        \/ test_path[k] = token
        \/ test_path[k] = "test_security.py" /\ token = "security"

\* categorize_test without the lower-casing of the path.
categorize_test_case_sensitive(test_path) ==
    IF HasToken(test_path, "integration") THEN "integration"
    ELSE IF HasToken(test_path, "functional") THEN "functional"
    ELSE IF HasToken(test_path, "security") THEN "security"
    ELSE IF HasToken(test_path, "performance") THEN "performance"
    ELSE "unit"

\* lines 189-202: the first of the four tokens found in the lower-cased
\* path, else 'unit'.
categorize_test(test_path) ==
    LET p == Lower(test_path) IN
    IF HasToken(p, "integration") THEN "integration"
    ELSE IF HasToken(p, "functional") THEN "functional"
    ELSE IF HasToken(p, "security") THEN "security"
    ELSE IF HasToken(p, "performance") THEN "performance"
    ELSE "unit"

\* conftest_category with the security test before the other three.
conftest_category_security_first(test_path) ==
    IF HasToken(test_path, "security") THEN "security"
    ELSE IF HasToken(test_path, "integration") THEN "integration"
    ELSE IF HasToken(test_path, "functional") THEN "functional"
    ELSE IF HasToken(test_path, "performance") THEN "performance"
    ELSE "unit"

\* tests/conftest.py lines 125-135: the category that
\* RealtimeTestPlugin.pytest_runtest_setup determines, the first of the four
\* tokens found in the path as written, else 'unit'.
conftest_category(test_path) ==
    IF HasToken(test_path, "integration") THEN "integration"
    ELSE IF HasToken(test_path, "functional") THEN "functional"
    ELSE IF HasToken(test_path, "security") THEN "security"
    ELSE IF HasToken(test_path, "performance") THEN "performance"
    ELSE "unit"

\* lines 25-39: TestEvent (the fields the streamer and the hooks set, without
\* the clock readings).
TestEvent(event_type, test_id, category) ==
    [event_type |-> event_type, test_id |-> test_id, category |-> category]

\* supabase.table('logs').insert(entry).execute(): the call is counted, and
\* either the row is added or the call raises, which is counted too.
Insert(entry, ok) ==
    [supabase EXCEPT !.insert_calls = @ + 1,
                     !.failures = IF ok THEN @ ELSE @ + 1,
                     !.rows = IF ok THEN Append(@, entry) ELSE @]

\* stream_event whose insert replaces the rows of the table.
stream_event_overwriting(event, ok) ==
    IF ~supabase.client
    THEN supabase
    ELSE [supabase EXCEPT !.insert_calls = @ + 1,
                          !.failures = IF ok THEN @ ELSE @ + 1,
                          !.rows = IF ok THEN <<[level |-> "info",
                                                 message |-> "Test event",
                                                 data |-> event,
                                                 source |-> "test"]>>
                                   ELSE @]

\* lines 85-111: stream_event: nothing without a client; else one insert,
\* whose exception is caught.  The value is the table after the call.
stream_event(event, ok) ==
    IF ~supabase.client
    THEN supabase
    ELSE Insert([level |-> "info", message |-> "Test event", data |-> event,
                 source |-> "test"], ok)

\* lines 113-136: start_session: one insert when there is a client.
start_session(total_tests, ok) ==
    IF supabase.client
    THEN Insert([level |-> "info", message |-> "Test session started",
                 data |-> [total_tests |-> total_tests,
                           coverage_threshold |-> coverage_threshold],
                 source |-> "test"], ok)
    ELSE supabase

\* end_session whose level is 'info' only above the threshold.
end_session_above(passed, failed, skipped, coverage, ok) ==
    IF supabase.client
    THEN Insert([level |-> IF coverage > coverage_threshold
                           THEN "info" ELSE "error",
                 message |-> "Test session completed",
                 data |-> [passed |-> passed, failed |-> failed,
                           skipped |-> skipped, coverage |-> coverage,
                           success_rate |->
                               IF passed + failed + skipped > 0
                               THEN (passed * 100) \div (passed + failed + skipped)
                               ELSE 0,
                           coverage_met |-> coverage >= coverage_threshold,
                           categories |-> streamer.category_counts],
                 source |-> "test"], ok)
    ELSE supabase

\* lines 138-187: end_session: one insert when there is a client, of level
\* 'info' if coverage >= 80 else 'error', with coverage_met.
end_session(passed, failed, skipped, coverage, ok) ==
    IF supabase.client
    THEN Insert([level |-> IF coverage >= coverage_threshold
                           THEN "info" ELSE "error",
                 message |-> "Test session completed",
                 data |-> [passed |-> passed, failed |-> failed,
                           skipped |-> skipped, coverage |-> coverage,
                           success_rate |->
                               IF passed + failed + skipped > 0
                               THEN (passed * 100) \div (passed + failed + skipped)
                               ELSE 0,
                           coverage_met |-> coverage >= coverage_threshold,
                           categories |-> streamer.category_counts],
                 source |-> "test"], ok)
    ELSE supabase

\* The test code hands a set of events to asyncio.gather, one stream_event
\* coroutine each (tests/integration/test_realtime_integration.py:248-278).
Gather(events) ==
    /\ run.gathered = {}
    /\ events # {}
    /\ run' = [run EXCEPT !.gathered = events, !.gather = events]
    /\ UNCHANGED <<supabase, streamer, manager_vars>>

\* StreamEvent of a stream_event without its except clause.
StreamEventUncaught(event) ==
    /\ event \in run.gather
    /\ \E ok \in BOOLEAN :
          /\ supabase' = stream_event(event, ok)
          /\ run' = [run EXCEPT !.gather = @ \ {event},
                                !.raised = IF supabase.client /\ ~ok
                                           THEN @ \cup {event} ELSE @]
    /\ UNCHANGED <<streamer, manager_vars>>

\* lines 85-111: the event loop runs one of the coroutines; stream_event has
\* no await that yields, so the coroutine runs from its call to its return.
StreamEvent(event) ==
    /\ event \in run.gather
    /\ \E ok \in BOOLEAN : supabase' = stream_event(event, ok)
    /\ run' = [run EXCEPT !.gather = @ \ {event}]
    /\ UNCHANGED <<streamer, manager_vars>>

\* The test code calls categorize_test on its path
\* (tests/integration/test_realtime_integration.py:112-128).
Categorize ==
    /\ run.category = ""
    /\ run' = [run EXCEPT !.category = categorize_test(run.path)]
    /\ UNCHANGED <<supabase, streamer, manager_vars>>

\* The plugin of tests/conftest.py determines the category of the same path
\* (conftest.py lines 122-137).
CategorizeConftest ==
    /\ run.conftest = ""
    /\ run' = [run EXCEPT !.conftest = conftest_category(run.path)]
    /\ UNCHANGED <<supabase, streamer, manager_vars>>

\* The test code calls start_session (lines 113-136).
StartSession(total_tests) ==
    /\ run.session_calls < MaxCalls
    /\ \E ok \in BOOLEAN : supabase' = start_session(total_tests, ok)
    /\ run' = [run EXCEPT !.session_calls = @ + 1, !.last = "start_session",
                          !.open = TRUE]
    /\ UNCHANGED <<streamer, manager_vars>>

\* The test code calls end_session (lines 138-187).
EndSession(passed, failed, skipped, coverage) ==
    /\ run.session_calls < MaxCalls
    /\ \E ok \in BOOLEAN :
          supabase' = end_session(passed, failed, skipped, coverage, ok)
    /\ run' = [run EXCEPT !.session_calls = @ + 1, !.last = "end_session",
                          !.open = FALSE]
    /\ UNCHANGED <<streamer, manager_vars>>

\* lines 221-225: pytest_sessionstart.
pytest_sessionstart ==
    /\ run.stage = "created"
    /\ \E ok \in BOOLEAN : supabase' = start_session(Cardinality(Tests), ok)
    /\ run' = [run EXCEPT !.stage = "running", !.session_calls = @ + 1,
                          !.last = "start_session", !.open = TRUE]
    /\ UNCHANGED <<streamer, manager_vars>>

\* pytest_runtest_setup that does not count the category.
pytest_runtest_setup_uncounted(item) ==
    /\ run.stage = "running"
    /\ run.phase[item] = "collected"
    /\ \A t \in Tests : run.phase[t] \in {"collected", "done"}
    /\ LET category == categorize_test(fspath[item])
           event == TestEvent("started", item, category)
       IN  /\ streamer' = streamer
           /\ \E ok \in BOOLEAN : supabase' = stream_event(event, ok)
           /\ run' = [run EXCEPT !.phase[item] = "setup",
                                 !.emitted = Append(@, event)]
    /\ UNCHANGED manager_vars

\* lines 228-247: pytest_runtest_setup: count the category, stream 'started'.
\* pytest runs one item at a time, and calls this hook before the item's
\* fixtures are set up.
pytest_runtest_setup(item) ==
    /\ run.stage = "running"
    /\ run.phase[item] = "collected"
    /\ \A t \in Tests : run.phase[t] \in {"collected", "done"}
    /\ LET category == categorize_test(fspath[item])
           event == TestEvent("started", item, category)
       IN  /\ streamer' = [streamer EXCEPT !.category_counts[category] = @ + 1]
           /\ \E ok \in BOOLEAN : supabase' = stream_event(event, ok)
           /\ run' = [run EXCEPT !.phase[item] = "setup",
                                 !.emitted = Append(@, event)]
    /\ UNCHANGED manager_vars

\* The phase after phase when of an item: no call phase after a setup that
\* raised.
NextPhase(when, excinfo) ==
    IF when = "setup" THEN (IF excinfo = "None" THEN "call" ELSE "teardown")
    ELSE IF when = "call" THEN "teardown"
    ELSE "done"

\* lines 250-281: pytest_runtest_makereport, called after each phase of an
\* item: for the call phase only, stream the outcome and store it.  pytest
\* counts a phase that raised an error in session.testsfailed.
pytest_runtest_makereport(item, when, excinfo, result) ==
    /\ run.phase[item] = when
    /\ excinfo # "None" => result = "None"
    /\ IF when = "call"
       THEN LET outcome == IF excinfo = "None" /\ result = "skipped"
                           THEN "skipped"
                           ELSE IF excinfo = "None" THEN "passed" ELSE "failed"
                category == categorize_test(fspath[item])
                event == TestEvent(outcome, item, category)
            IN  /\ \E ok \in BOOLEAN : supabase' = stream_event(event, ok)
                /\ streamer' = [streamer EXCEPT !.test_results =
                                   (item :> [outcome |-> outcome,
                                             category |-> category]) @@ @]
                /\ run' = [run EXCEPT
                      !.phase[item] = NextPhase(when, excinfo),
                      !.emitted = Append(@, event),
                      !.testsfailed = IF excinfo = "Exception" THEN @ + 1 ELSE @]
       ELSE /\ run' = [run EXCEPT
                      !.phase[item] = NextPhase(when, excinfo),
                      !.testsfailed = IF excinfo = "Exception" THEN @ + 1 ELSE @]
            /\ UNCHANGED <<supabase, streamer>>
    /\ UNCHANGED manager_vars

\* The number of stored results with the outcome.
CountOutcome(outcome) ==
    Cardinality({t \in DOMAIN streamer.test_results :
                    streamer.test_results[t].outcome = outcome})

\* lines 284-305: pytest_sessionfinish: count the stored outcomes, call
\* end_session with the placeholder coverage, force a failure below the
\* threshold.
pytest_sessionfinish ==
    /\ run.stage = "running"
    /\ \A t \in Tests : run.phase[t] \in {"collected", "done"}
    /\ LET coverage == placeholder_coverage
       IN  /\ \E ok \in BOOLEAN :
                 supabase' = end_session(CountOutcome("passed"),
                                         CountOutcome("failed"),
                                         CountOutcome("skipped"), coverage, ok)
           /\ run' = [run EXCEPT
                 !.stage = "finished", !.session_calls = @ + 1,
                 !.last = "end_session", !.open = FALSE,
                 !.testsfailed = IF coverage < coverage_threshold
                                 THEN @ + 1 ELSE @]
    /\ UNCHANGED <<streamer, manager_vars>>

\* lines 49-62: RealtimeTestStreamer.__init__.
NewStreamer ==
    [test_results |-> <<>>, category_counts |-> [c \in Categories |-> 0]]

\* A pytest session that has been created, with its items collected, and
\* test code that has called nothing yet.  open tells whether the last
\* session call was a start_session.
NewRun ==
    [stage |-> "created", phase |-> [t \in Tests |-> "collected"],
     testsfailed |-> 0, emitted |-> <<>>, gathered |-> {}, gather |-> {},
     raised |-> {}, session_calls |-> 0, last |-> "none", open |-> FALSE,
     path |-> <<>>, category |-> "", conftest |-> ""]

\* No test run: the global _streamer is None (line 206), no streamer has been
\* constructed.
NoTestRun ==
    /\ supabase = None
    /\ streamer = None
    /\ run = None

\* lines 34-49: SandboxManager.__init__ over an empty table.
Init ==
    /\ now = 0
    /\ nextId = 1
    /\ handle = [i \in SandboxIds |-> "none"]
    /\ closeCalls = [i \in SandboxIds |-> 0]
    /\ active_sandboxes = {}
    /\ sandbox_metadata = <<>>
    /\ table = <<>>
    /\ sink = <<>>
    /\ tasks = <<>>
    /\ req = [c \in Callers |-> Idle]
    /\ started = 0
    /\ NoTestRun

\* The state after create_sandbox("u1") has returned the first sandbox.
InitExec ==
    /\ now = 0
    /\ nextId = 2
    /\ handle = [i \in SandboxIds |-> IF i = 1 THEN "open" ELSE "none"]
    /\ closeCalls = [i \in SandboxIds |-> 0]
    /\ active_sandboxes = {1}
    /\ sandbox_metadata = (1 :> [user_id |-> "u1", status |-> "running",
                                  last_activity_at |-> 0, expires_at |-> TTL])
    /\ table = sandbox_metadata
    /\ sink = <<Event("sandbox_created", 1, 0, 0)>>
    /\ tasks = <<>>
    /\ req = [c \in Callers |-> Idle]
    /\ started = 0
    /\ NoTestRun

\* The state after create_sandbox("u1") has returned max_sandboxes_per_user - 1
\* sandboxes: owner u1 is one below the cap.
InitQuota ==
    /\ now = 0
    /\ nextId = max_sandboxes_per_user
    /\ handle = [i \in SandboxIds |-> IF i < max_sandboxes_per_user
                                       THEN "open" ELSE "none"]
    /\ closeCalls = [i \in SandboxIds |-> 0]
    /\ active_sandboxes = 1..(max_sandboxes_per_user - 1)
    /\ sandbox_metadata = [i \in 1..(max_sandboxes_per_user - 1) |->
                              [user_id |-> "u1", status |-> "running",
                               last_activity_at |-> 0, expires_at |-> TTL]]
    /\ table = sandbox_metadata
    /\ sink = [i \in 1..(max_sandboxes_per_user - 1) |->
                  Event("sandbox_created", i, 0, 0)]
    /\ tasks = <<>>
    /\ req = [c \in Callers |-> Idle]
    /\ started = 0
    /\ NoTestRun

\* Creation and destruction, by two owners.
Next ==
    \/ \E c \in Callers, u \in Users : CallCreate(c, u)
    \/ \E c \in Callers : CreateCheckLimit(c)
    \/ \E c \in Callers : CreateProvider(c)
    \/ \E c \in Callers : CreateInsert(c)
    \/ \E c \in Callers : CreateEmit(c)
    \/ \E c \in Callers, i \in SandboxIds : CallDestroy(c, i)
    \/ \E c \in Callers : DestroyClose(c)
    \/ \E c \in Callers : DestroyUpdate(c)
    \/ \E c \in Callers : DestroyEmit(c)
    \/ \E c \in Callers : Return(c)

Spec == Init /\ [][Next]_vars

\* The same requests, served from the state where u1 is one below the cap.
SpecQuota == InitQuota /\ [][Next]_vars

\* Creation, destruction and the sweep of expired sandboxes, as time passes.
NextSweep ==
    \/ \E c \in Callers, u \in SweepUsers : CallCreate(c, u)
    \/ \E c \in Callers : CreateCheckLimit(c)
    \/ \E c \in Callers : CreateProvider(c)
    \/ \E c \in Callers : CreateInsert(c)
    \/ \E c \in Callers : CreateEmit(c)
    \/ \E c \in Callers, i \in SandboxIds : CallDestroy(c, i)
    \/ \E c \in Callers : DestroyClose(c)
    \/ \E c \in Callers : DestroyUpdate(c)
    \/ \E c \in Callers : DestroyEmit(c)
    \/ \E c \in Callers : CallCleanup(c)
    \/ \E c \in Callers : CleanupSelect(c)
    \/ \E c \in Callers : CleanupLoop(c)
    \/ \E c \in Callers : Return(c)
    \/ Tick

SpecSweep == Init /\ [][NextSweep]_vars

\* The sweep run by one caller while the other creates and destroys.
NextReap ==
    \/ \E c \in ExecCallers, u \in SweepUsers : CallCreate(c, u)
    \/ \E c \in Callers : CreateCheckLimit(c)
    \/ \E c \in Callers : CreateProvider(c)
    \/ \E c \in Callers : CreateInsert(c)
    \/ \E c \in Callers : CreateEmit(c)
    \/ \E c \in ExecCallers, i \in SandboxIds : CallDestroy(c, i)
    \/ \E c \in Callers : DestroyClose(c)
    \/ \E c \in Callers : DestroyUpdate(c)
    \/ \E c \in Callers : DestroyEmit(c)
    \/ \E c \in Callers \ ExecCallers : CallCleanup(c)
    \/ \E c \in Callers : CleanupSelect(c)
    \/ \E c \in Callers : CleanupLoop(c)
    \/ \E c \in Callers : Return(c)
    \/ Tick

SpecReap == Init /\ [][NextReap]_vars

\* Code execution on a registered and on an unknown sandbox id, with the
\* event loop's emission tasks; the first request may stream its output.
NextExec ==
    \/ \E c \in ExecCallers, i \in {1, 2}, code \in Codes, s \in BOOLEAN :
          /\ s => started = 0
          /\ CallExecute(c, i, code, s)
    \/ \E c \in Callers : ExecBegin(c)
    \/ \E c \in Callers : ExecWarn(c)
    \/ \E c \in Callers : ExecTouch(c)
    \/ \E c \in Callers : ExecStart(c)
    \/ \E c \in Callers : ExecRun(c)
    \/ \E c \in Callers : ExecComplete(c)
    \/ \E c \in Callers : ExecError(c)
    \/ RunTask
    \/ \E c \in Callers : Return(c)

SpecExec == InitExec /\ [][NextExec]_vars

\* The file operations on the registered and on an unknown sandbox id while
\* the registered sandbox is destroyed, and code execution and installation
\* as they meet an id that is out of the registry (never created, or
\* destroyed before the call).
NextFiles ==
    \/ \E c \in ExecCallers, i \in {1, 2}, code \in Codes, s \in BOOLEAN :
          i \notin active_sandboxes /\ CallExecute(c, i, code, s)
    \/ \E c \in Callers : ExecBegin(c)
    \/ \E c \in ExecCallers, i \in {1, 2}, l \in PackageLists :
          i \notin active_sandboxes /\ CallInstall(c, i, l)
    \/ \E c \in Callers : InstallBegin(c)
    \/ \E c \in Callers, op \in FileOps, i \in {1, 2}, f \in Paths :
          CallFile(c, op, i, f)
    \/ \E c \in Callers : ListFiles(c)
    \/ \E c \in Callers : ReadFile(c)
    \/ \E c \in Callers : WriteFile(c)
    \/ \E c \in Callers : WriteEmit(c)
    \/ \E c \in Callers : CallDestroy(c, 1)
    \/ \E c \in Callers : DestroyClose(c)
    \/ \E c \in Callers : DestroyUpdate(c)
    \/ \E c \in Callers : DestroyEmit(c)
    \/ \E c \in Callers : Return(c)

SpecFiles == InitExec /\ [][NextFiles]_vars

\* Code execution on the registered sandbox while the other caller destroys
\* that sandbox.
NextRace ==
    \/ \E c \in ExecCallers, code \in Codes, s \in BOOLEAN : CallExecute(c, 1, code, s)
    \/ \E c \in Callers : ExecBegin(c)
    \/ \E c \in Callers : ExecWarn(c)
    \/ \E c \in Callers : ExecTouch(c)
    \/ \E c \in Callers : ExecStart(c)
    \/ \E c \in Callers : ExecRun(c)
    \/ \E c \in Callers : ExecComplete(c)
    \/ \E c \in Callers : ExecError(c)
    \/ RunTask
    \/ \E c \in Callers \ ExecCallers : CallDestroy(c, 1)
    \/ \E c \in Callers : DestroyClose(c)
    \/ \E c \in Callers : DestroyUpdate(c)
    \/ \E c \in Callers : DestroyEmit(c)
    \/ \E c \in Callers : Return(c)

SpecRace == InitExec /\ [][NextRace]_vars

\* The writers of the datastore rows and of the metadata, as time passes:
\* one caller creates sandboxes and executes code without streaming while
\* the other destroys the first sandbox.
NextLease ==
    \/ \E c \in ExecCallers, i \in {1, 2}, code \in Codes : CallExecute(c, i, code, FALSE)
    \/ \E c \in Callers : ExecBegin(c)
    \/ \E c \in Callers : ExecTouch(c)
    \/ \E c \in Callers : ExecRun(c)
    \/ \E c \in Callers : ExecError(c)
    \/ \E c \in ExecCallers, u \in SweepUsers : CallCreate(c, u)
    \/ \E c \in Callers : CreateCheckLimit(c)
    \/ \E c \in Callers : CreateProvider(c)
    \/ \E c \in Callers : CreateInsert(c)
    \/ \E c \in Callers : CreateEmit(c)
    \/ \E c \in Callers \ ExecCallers : CallDestroy(c, 1)
    \/ \E c \in Callers : DestroyClose(c)
    \/ \E c \in Callers : DestroyUpdate(c)
    \/ \E c \in Callers : DestroyEmit(c)
    \/ \E c \in Callers : Return(c)
    \/ Tick

SpecLease == InitExec /\ [][NextLease]_vars

\* install_packages on the registered and on an unknown sandbox id, up to the
\* end of the command; the emission tasks of the output lines stay pending.
NextInstall ==
    \/ \E c \in ExecCallers, i \in {1, 2}, l \in PackageLists : CallInstall(c, i, l)
    \/ \E c \in Callers : InstallBegin(c)
    \/ \E c \in Callers : ExecWarn(c)
    \/ \E c \in Callers : ExecTouch(c)
    \/ \E c \in Callers : ExecStart(c)
    \/ \E c \in Callers : ExecRun(c)
    \/ \E c \in Callers : ExecComplete(c)
    \/ \E c \in Callers : ExecError(c)
    \/ \E c \in Callers : Return(c)

SpecInstall == InitExec /\ [][NextInstall]_vars

\* The manager as constructed, serving nothing.
NoSandboxes ==
    /\ now = 0
    /\ nextId = 1
    /\ handle = [i \in SandboxIds |-> "none"]
    /\ closeCalls = [i \in SandboxIds |-> 0]
    /\ active_sandboxes = {}
    /\ sandbox_metadata = <<>>
    /\ table = <<>>
    /\ sink = <<>>
    /\ tasks = <<>>
    /\ req = [c \in Callers |-> Idle]
    /\ started = 0

\* The events the test code streams at once.
GatherEvents ==
    {TestEvent(ty, t, "performance") : ty \in {"started", "passed"}, t \in Tests}

\* A streamer with or without a client (lines 67-83), new or in the middle of
\* a run, before the test code streams its events.
InitStream ==
    /\ NoSandboxes
    /\ supabase \in [client : BOOLEAN, rows : {<<>>}, insert_calls : {0},
                    failures : {0}]
    /\ streamer \in
          {NewStreamer,
           [test_results |-> ("t1" :> [outcome |-> "passed", category |-> "unit"]),
            category_counts |-> [c \in Categories |->
                                    IF c = "unit" THEN 1 ELSE 0]]}
    /\ run = NewRun

\* Events streamed at once by the test code.
NextStream ==
    \/ \E events \in SUBSET GatherEvents : Gather(events)
    \/ \E event \in GatherEvents : StreamEvent(event)

SpecStream == InitStream /\ [][NextStream]_vars

\* A streamer and a path that the test code and the plugin of conftest.py
\* are about to categorize.
InitCategorize ==
    /\ NoSandboxes
    /\ supabase = [client |-> FALSE, rows |-> <<>>, insert_calls |-> 0,
                   failures |-> 0]
    /\ streamer = NewStreamer
    /\ run \in {[NewRun EXCEPT !.path = p] : p \in TestPaths}

NextCategorize ==
    \/ Categorize
    \/ CategorizeConftest

SpecCategorize == InitCategorize /\ [][NextCategorize]_vars

\* A pytest session that has been created, with a new streamer.
InitRun ==
    /\ NoSandboxes
    /\ supabase \in [client : BOOLEAN, rows : {<<>>}, insert_calls : {0},
                    failures : {0}]
    /\ streamer = NewStreamer
    /\ run = NewRun

\* A pytest run: the hooks, in the order pytest calls them.
NextRun ==
    \/ pytest_sessionstart
    \/ \E item \in Tests : pytest_runtest_setup(item)
    \/ \E item \in Tests, when \in {"setup", "call", "teardown"},
          excinfo \in ExcInfos, result \in CallResults :
            pytest_runtest_makereport(item, when, excinfo, result)
    \/ pytest_sessionfinish

SpecRun == InitRun /\ [][NextRun]_vars

\* The session calls: by the hooks of a pytest run that runs no item, and by
\* test code that calls the streamer directly.
NextSession ==
    \/ \E total_tests \in {Cardinality(Tests)} : StartSession(total_tests)
    \/ \E passed \in Counts, failed \in Counts, skipped \in Counts,
          coverage \in Coverages :
            EndSession(passed, failed, skipped, coverage)
    \/ pytest_sessionstart
    \/ pytest_sessionfinish

SpecSession == InitRun /\ [][NextSession]_vars

\* ================================================================ claims

\* The sandboxes of owner u that are registered as running.
RunningOf(u) == {i \in active_sandboxes : sandbox_metadata[i].user_id = u}

\* Sandbox i is held by a create_sandbox call that has not yet registered it.
InCreate(i) == \E c \in Callers : req[c].pc = "c_insert" /\ req[c].sid = i

\* C1: no owner ever has more than max_sandboxes_per_user sandboxes running
\* at the same time, however concurrent create_sandbox calls interleave.
C1_QuotaNeverExceeded ==
    \A u \in Users : Cardinality(RunningOf(u)) <= max_sandboxes_per_user

\* C3: the provider handle of a sandbox is closed exactly once, however often
\* destroy_sandbox is called on its id and whether or not a close raised.
C3_CloseInvokedOnce ==
    \A i \in SandboxIds :
        /\ closeCalls[i] <= 1
        /\ (i \in DOMAIN table /\ i \notin active_sandboxes) => closeCalls[i] = 1

\* C4: destroy_sandbox returns True only on the call that takes a running
\* sandbox out of the registry.
C4_TrueOnlyWhenRemoved ==
    \A c \in Callers :
        (req[c].op = "destroy" /\ req[c].pc = "done" /\ req[c].ret = "True")
            => req[c].removed

\* C5: outside a create_sandbox call that is about to register it, a sandbox
\* id is registered exactly when its provider handle is open.
C5_RegisteredIffOpenHandle ==
    \A i \in SandboxIds :
        ~InCreate(i) => ((i \in active_sandboxes) <=> (handle[i] = "open"))

C2_RejectedCodeNeverStarts ==
    \A c \in Callers :
        (req[c].op = "execute" /\ ~validate_code(req[c].code).is_safe)
            => req[c].starts = 0

\* A streaming call on a registered sandbox was rejected and its warning lost.
C2_Witness ==
    \E c \in Callers :
        /\ req[c].op = "execute" /\ req[c].pc = "done" /\ req[c].ret = "raised"
        /\ ~validate_code(req[c].code).is_safe
        /\ req[c].sid \in active_sandboxes /\ req[c].stream /\ req[c].lost

\* C7: an execute_code call whose provider call succeeded returns its result,
\* whichever of its emissions the sink failed.
C7_ResultDespiteSinkFailure ==
    \A c \in Callers :
        (req[c].op = "execute" /\ req[c].pc = "done" /\ req[c].provider_ok)
            => req[c].ret = "ok"

\* A streaming call returned its result although the sink failed under it.
C7_Witness ==
    \E c \in Callers :
        /\ req[c].op = "execute" /\ req[c].pc = "done" /\ req[c].provider_ok
        /\ req[c].stream /\ req[c].lost /\ req[c].ret = "ok"

\* The emission tasks of execution e that have not run yet.
PendingOf(e) == {k \in 1..Len(tasks) : tasks[k].exec = e}

\* C8: no line event of a streaming execution is still pending once its
\* code_execution_complete event is emitted, or once execute_code has returned.
C8_LinesBeforeComplete ==
    /\ \A k \in 1..Len(sink) :
          sink[k].type = "code_execution_complete" => PendingOf(sink[k].exec) = {}
    /\ \A c \in Callers :
          (req[c].op = "execute" /\ req[c].pc = "done") => PendingOf(req[c].exec) = {}

C10_SelectsExpiredInclusive ==
    [][\A c \in Callers :
          (req[c].pc = "k_select" /\ req'[c].pc = "k_loop")
              => req'[c].selected =
                    {i \in RunningRows : table[i].expires_at <= now}]_vars

\* C11: when cleanup_expired_sandboxes has returned, every sandbox it had
\* selected is out of the registry, its handle is closed and its row is no
\* longer running.
C11_SelectedAreTerminated ==
    \A c \in Callers :
        (req[c].op = "cleanup" /\ req[c].pc = "done")
            => \A i \in req[c].selected :
                  /\ i \notin active_sandboxes
                  /\ handle[i] = "closed"
                  /\ i \notin RunningRows

\* C12: the sweep counts a destroy_sandbox call exactly when that call closed
\* and removed its sandbox and went through to its end; a call that failed is
\* not counted and the loop goes on, so that the sweep ends with no selected
\* sandbox left unattempted.
C12_CountsOwnDestructions ==
    [][\A c \in Callers :
          /\ (req[c].op = "cleanup" /\ req[c].pc \in {"d_close", "d_update", "d_emit"}
                /\ req'[c].pc = "k_loop")
                => req'[c].cleaned = req[c].cleaned
                       + (IF req[c].pc = "d_emit" /\ req[c].removed THEN 1 ELSE 0)
          /\ (req[c].op = "cleanup" /\ req[c].pc = "k_loop" /\ req'[c].pc = "done")
                => req[c].todo = {}]_vars

\* C13: no step of a sweep touches a running sandbox whose expiry is still in
\* the future: it stays registered, its handle and its row stay as they are.
C13_UnexpiredUntouched ==
    [][\A c \in Callers :
          (req[c].op = "cleanup" /\ req'[c] # req[c])
              => \A i \in RunningRows :
                    table[i].expires_at > now
                        => /\ (i \in active_sandboxes') = (i \in active_sandboxes)
                           /\ handle'[i] = handle[i]
                           /\ closeCalls'[i] = closeCalls[i]
                           /\ table'[i] = table[i]]_vars

\* A sweep has destroyed an expired sandbox and returned while another
\* sandbox, not yet expired, is running.
C13_Witness ==
    \E c \in Callers :
        /\ req[c].op = "cleanup" /\ req[c].pc = "done" /\ req[c].cleaned > 0
        /\ \E i \in active_sandboxes \cap RunningRows :
              table[i].expires_at > now /\ handle[i] = "open"

\* A destroy_sandbox call is under way.
DestroyInFlight == \E d \in Callers : req[d].op = "destroy" /\ req[d].pc # "done"

\* C14: once destroy_sandbox calls are over, whatever they returned, a
\* create_sandbox of an owner with fewer than max_sandboxes_per_user
\* sandboxes in the registry passes the quota check.
C14_DestroyReleasesQuota ==
    [][\A c \in Callers :
          (/\ req[c].pc = "c_count" /\ req'[c].pc # "c_count"
           /\ ~DestroyInFlight
           /\ Cardinality(RunningOf(req[c].user_id)) < max_sandboxes_per_user)
              => req'[c].pc = "c_provider"]_vars

\* C15: a create_sandbox call that finds its owner at or above the cap fails
\* at the check and returns, with the provider, the datastore, the registry
\* and the sink left as they were.
C15_RefusalHasNoEffect ==
    [][\A c \in Callers :
          /\ (/\ req[c].pc = "c_count" /\ req'[c] # req[c]
              /\ get_user_sandbox_count(req[c].user_id) >= max_sandboxes_per_user)
                => /\ req'[c].pc = "done" /\ req'[c].ret = "quota" /\ req'[c].sid = 0
                   /\ UNCHANGED <<nextId, handle, closeCalls, active_sandboxes,
                                  sandbox_metadata, table, sink, tasks>>
          /\ (req[c].op = "create" /\ req[c].ret = "quota" /\ req'[c] # req[c])
                => /\ req'[c] = Idle
                   /\ UNCHANGED <<nextId, handle, closeCalls, active_sandboxes,
                                  sandbox_metadata, table, sink, tasks>>]_vars

\* A create_sandbox call was refused at the quota check.
C15_Witness ==
    \E c \in Callers :
        /\ req[c].op = "create" /\ req[c].pc = "done" /\ req[c].ret = "quota"
        /\ get_user_sandbox_count(req[c].user_id) >= max_sandboxes_per_user

\* C18: every destroy_sandbox call ends by returning True or False, whether
\* the close, the row update or the emission failed under it.
C18_DestroyReturnsBoolean ==
    \A c \in Callers :
        (req[c].op = "destroy" /\ req[c].pc = "done")
            => req[c].ret \in {"True", "False"}

\* A destroy_sandbox call has returned after the close of its sandbox raised.
C18_Witness ==
    \E c \in Callers :
        /\ req[c].op = "destroy" /\ req[c].pc = "done" /\ req[c].ret = "False"
        /\ req[c].sid \in active_sandboxes
        /\ closeCalls[req[c].sid] > 0

\* C16: a call of execute_code, install_packages, list_files, read_file or
\* write_file that finds its id out of the registry ends at the lookup with a
\* not-found error: no provider call, no datastore write, no event, and
\* nothing after it but its return.
C16_NotFoundHasNoEffect ==
    [][\A c \in Callers :
          /\ (/\ req[c].pc \in {"e_begin", "i_begin", "f_begin"}
              /\ req'[c] # req[c]
              /\ req[c].sid \notin active_sandboxes)
                => /\ req'[c].pc = "done" /\ req'[c].ret = "raised"
                   /\ req'[c].starts = 0 /\ req'[c].fs = 0
                   /\ UNCHANGED <<handle, closeCalls, active_sandboxes,
                                  sandbox_metadata, table, sink, tasks>>
          /\ (req[c].pc = "done" /\ req'[c] # req[c])
                => /\ req'[c] = Idle
                   /\ UNCHANGED <<handle, closeCalls, active_sandboxes,
                                  sandbox_metadata, table, sink, tasks>>]_vars

\* read_file with a safe path has failed, without a provider call, on the
\* sandbox that a destroy_sandbox call had closed and removed.
C16_Witness ==
    \E c \in Callers :
        /\ req[c].op = "read_file" /\ req[c].pc = "done" /\ req[c].ret = "raised"
        /\ is_safe_file_path(req[c].path) /\ req[c].fs = 0
        /\ req[c].sid \in DOMAIN table
        /\ req[c].sid \notin active_sandboxes /\ handle[req[c].sid] = "closed"

\* C17: process.start is not invoked on a sandbox that destroy_sandbox has
\* closed and taken out of the registry.
C17_NoStartAfterClose ==
    [][\A c \in Callers :
          req'[c].starts > req[c].starts
              => ~(/\ handle[req[c].sid] = "closed"
                   /\ req[c].sid \notin active_sandboxes)]_vars

\* C20: a read_file or write_file call with an unsafe path makes no call on
\* the provider's filesystem and emits nothing.
C20_UnsafePathNeverReachesProvider ==
    [][\A c \in Callers :
          (/\ req[c].op \in {"read_file", "write_file"}
           /\ ~is_safe_file_path(req[c].path))
              => /\ req'[c].fs = 0
                 /\ req'[c].pc # "w_emit"
                 /\ req'[c] # req[c] => sink' = sink]_vars

\* write_file with an unsafe path on a registered sandbox has failed.
C20_Witness ==
    \E c \in Callers :
        /\ req[c].op = "write_file" /\ req[c].pc = "done" /\ req[c].ret = "raised"
        /\ ~is_safe_file_path(req[c].path)
        /\ req[c].sid \in active_sandboxes /\ handle[req[c].sid] = "open"

\* C19: expires_at is creation time plus the TTL when a row and its metadata
\* entry are created, and no step changes it afterwards; a step of
\* execute_code changes nothing of a row or a metadata entry but
\* last_activity_at.
C19_ExpiryFixedAtCreation ==
    [][/\ \A i \in DOMAIN table :
             i \in DOMAIN table' /\ table'[i].expires_at = table[i].expires_at
       /\ \A i \in DOMAIN table' \ DOMAIN table :
             table'[i].expires_at = now + TTL
       /\ \A i \in DOMAIN sandbox_metadata' :
             sandbox_metadata'[i].expires_at =
                IF i \in DOMAIN sandbox_metadata
                THEN sandbox_metadata[i].expires_at ELSE now + TTL
       /\ \A c \in Callers :
             (req[c].op = "execute" /\ req'[c] # req[c])
                => /\ DOMAIN table' = DOMAIN table
                   /\ DOMAIN sandbox_metadata' = DOMAIN sandbox_metadata
                   /\ \A i \in DOMAIN table :
                         table'[i] = [table[i] EXCEPT !.last_activity_at =
                                          table'[i].last_activity_at]
                   /\ \A i \in DOMAIN sandbox_metadata :
                         sandbox_metadata'[i] =
                            [sandbox_metadata[i] EXCEPT !.last_activity_at =
                                sandbox_metadata'[i].last_activity_at]]_vars

\* execute_code has returned from a running sandbox whose activity it
\* refreshed after the sandbox's lease had run out.
C19_Witness ==
    \E c \in Callers :
        /\ req[c].op = "execute" /\ req[c].pc = "done" /\ req[c].ret = "ok"
        /\ req[c].sid \in RunningRows
        /\ table[req[c].sid].last_activity_at > table[req[c].sid].expires_at

\* C21: a list_files call with an unsafe path makes no call on the provider's
\* filesystem.
C21_ListFilesValidatesPath ==
    [][\A c \in Callers :
          (req[c].op = "list_files" /\ ~is_safe_file_path(req[c].path))
              => req'[c].fs = 0]_vars

\* The package names of an install_packages call are all safe.
AllNamesSafe(c) ==
    \A k \in 1..Len(req[c].packages) : is_safe_package_name(req[c].packages[k])

\* C22: an install_packages call with an unsafe name ends at the check of the
\* names with no provider call, no datastore write and no event; with safe
\* names the provider is invoked only for a command that validate_code
\* accepts.
C22_InstallChecksNamesThenCode ==
    [][\A c \in Callers :
          /\ (/\ req[c].pc = "i_begin" /\ req'[c] # req[c]
              /\ req[c].sid \in active_sandboxes /\ ~AllNamesSafe(c))
                => /\ req'[c].pc = "done" /\ req'[c].ret = "raised"
                   /\ req'[c].starts = 0
                   /\ UNCHANGED <<handle, table, sink, tasks>>
          /\ (req[c].op = "install" /\ req'[c].starts > req[c].starts)
                => /\ AllNamesSafe(c)
                   /\ req[c].code = InstallCode(req[c].packages)
                   /\ validate_code(req[c].code).is_safe]_vars

\* An install_packages call on the registered sandbox whose list holds an
\* unsafe name has been refused, and nothing was emitted or run.
C22_Witness ==
    /\ \A k \in 1..Len(sink) : sink[k].type = "sandbox_created"
    /\ tasks = <<>>
    /\ \E c \in Callers :
          /\ req[c].op = "install" /\ req[c].pc = "done" /\ req[c].ret = "raised"
          /\ req[c].sid \in active_sandboxes /\ ~AllNamesSafe(c)
          /\ req[c].starts = 0

\* C23: an execute_code call that is over and made its provider call has
\* raised the commands-executed count of its sandbox, and the count of a
\* sandbox never goes down.
C23_ExecutionCounted ==
    /\ [](\A c \in Callers :
             (/\ req[c].op = "execute" /\ req[c].pc = "done"
              /\ req[c].starts > 0 /\ req[c].sid \in DOMAIN sandbox_metadata)
                 => commands_executed(req[c].sid) >= req[c].starts)
    /\ [][\A i \in DOMAIN sandbox_metadata \cap DOMAIN sandbox_metadata' :
             commands_executed(i)' >= commands_executed(i)]_vars

\* The sandboxes that a create_sandbox call registers in this step.
CreatedNow == DOMAIN table' \ DOMAIN table

\* The sandboxes whose close() returns to a destroy_sandbox call in this step.
ClosedNow ==
    {i \in SandboxIds : \E c \in Callers :
        /\ req[c].sid = i /\ req[c].pc = "d_close"
        /\ req'[c].removed /\ closeCalls'[i] = closeCalls[i] + 1}

\* C24: get_active_sandboxes lists a sandbox from the step that creates it to
\* the step in which destroy_sandbox closes it, and get_sandbox_status is
\* None exactly for the ids that get_active_sandboxes does not list.
C24_QueriesShowLiveSandboxes ==
    /\ [](\A i \in SandboxIds :
             (get_sandbox_status(i) = None) <=> (i \notin DOMAIN get_active_sandboxes))
    /\ [][DOMAIN get_active_sandboxes' =
             (DOMAIN get_active_sandboxes \cup CreatedNow) \ ClosedNow]_vars

\* One sandbox has been created and destroyed and has no status, while
\* another one is listed and has a status.
C24_Witness ==
    /\ \E i \in DOMAIN table :
          /\ handle[i] = "closed" /\ i \notin DOMAIN get_active_sandboxes
          /\ get_sandbox_status(i) = None
    /\ \E j \in DOMAIN get_active_sandboxes : get_sandbox_status(j) # None

\* C25: no stream_event call raises into its caller, and a stream_event call
\* (its insert having failed or not) leaves test_results and category_counts
\* as they were.
C25_StreamEventNeverRaises ==
    /\ [](run.raised = {})
    /\ [][run'.gather # run.gather /\ run'.gathered = run.gathered
             => streamer' = streamer]_vars

\* A stream_event call of a streamer with stored results is over: its insert
\* raised, and the call returned.
C25_Witness ==
    /\ supabase.client
    /\ supabase.insert_calls = 1
    /\ supabase.failures = 1
    /\ supabase.rows = <<>>
    /\ run.gathered # {} /\ run.gather = {} /\ run.raised = {}
    /\ streamer.test_results # <<>>

\* The rows of table 'logs' that carry the event.
RowsOf(event) ==
    {k \in 1..Len(supabase.rows) :
        supabase.rows[k].message = "Test event" /\ supabase.rows[k].data = event}

\* C26: with a client, every stream_event call that is over has made one
\* insert; when no insert has raised, every event whose call is over is in
\* the table exactly once, and no other event is.
C26_OneInsertPerEvent ==
    supabase.client =>
        /\ supabase.insert_calls = Cardinality(run.gathered \ run.gather)
        /\ supabase.failures = 0 =>
              \A event \in GatherEvents :
                  Cardinality(RowsOf(event)) =
                      IF event \in run.gathered \ run.gather THEN 1 ELSE 0

\* Three events were streamed at once, every call is over and every insert
\* succeeded.
C26_Witness ==
    /\ supabase.client
    /\ Cardinality(run.gathered) = 3
    /\ run.gather = {}
    /\ supabase.failures = 0
    /\ Len(supabase.rows) = 3

\* The category tokens that categorize_test looks for.
CategoryTokens == {"integration", "functional", "security", "performance"}

SummaryRows ==
    {k \in 1..Len(supabase.rows) :
        supabase.rows[k].message = "Test session completed"}

Emitted(item, types) ==
    Cardinality({k \in 1..Len(run.emitted) :
                    /\ run.emitted[k].test_id = item
                    /\ run.emitted[k].event_type \in types})

\* C29: when the run is over, every item for which a started event was
\* emitted has had exactly one terminal event emitted.
C29_OneTerminalPerStarted ==
    run.stage = "finished" =>
        \A item \in Tests :
            Emitted(item, {"started"}) > 0
                => Emitted(item, {"passed", "failed", "skipped"}) = 1

\* C30: a start_session call made while a session is open, and an
\* end_session call made while none is open, add no row to the table.
C30_SessionSinglePass ==
    [][run'.session_calls = run.session_calls + 1 =>
          /\ (run'.last = "start_session" /\ run.open)
                => supabase'.rows = supabase.rows
          /\ (run'.last = "end_session" /\ ~run.open)
                => supabase'.rows = supabase.rows]_vars

\* The sum of the category counts.
RECURSIVE SumCounts(_, _)
SumCounts(counts, categories) ==
    IF categories = {} THEN 0
    ELSE LET category == CHOOSE x \in categories : TRUE
         IN  counts[category] + SumCounts(counts, categories \ {category})

\* C31: the category counts are 0 before any test setup and add up to the
\* number of test setups made; no step lowers a count or removes or changes
\* a recorded result, a test setup adds one to the count of the category of
\* its item and leaves the other counts, and no other step changes a count.
C31_CountsAndResultsGrow ==
    /\ [](SumCounts(streamer.category_counts, Categories) =
             Cardinality({t \in Tests : run.phase[t] # "collected"}))
    /\ [][/\ \A category \in Categories :
                streamer'.category_counts[category]
                    >= streamer.category_counts[category]
          /\ \A t \in DOMAIN streamer.test_results :
                /\ t \in DOMAIN streamer'.test_results
                /\ streamer'.test_results[t] = streamer.test_results[t]
          /\ \A item \in Tests :
                (run.phase[item] = "collected" /\ run'.phase[item] = "setup") =>
                    streamer'.category_counts =
                        [streamer.category_counts EXCEPT
                            ![categorize_test(fspath[item])] = @ + 1]
          /\ (\A item \in Tests : run.phase[item] = "collected"
                                     => run'.phase[item] = "collected")
                => streamer'.category_counts = streamer.category_counts]_vars

\* Both items have been set up and have a recorded result, one in each of
\* two categories.
C31_Witness ==
    /\ streamer.category_counts["unit"] = 1
    /\ streamer.category_counts["integration"] = 1
    /\ DOMAIN streamer.test_results = Tests
    /\ run.stage = "running"

\* The positions of the sink that hold a terminal event of execution e.
TerminalOf(e) ==
    {k \in 1..Len(sink) :
        /\ sink[k].exec = e
        /\ sink[k].type \in {"code_execution_complete", "code_execution_error"}}

\* The program points of an execute_code call between its security
\* validation and its return.
Validated == {"e_touch", "e_start", "e_run", "e_complete", "e_error"}

\* C32: a streaming execute_code call that has passed its checks ends by one
\* emission, of code_execution_complete if its provider call returned and of
\* code_execution_error if not, made when no terminal event of the call is
\* in the sink; after the emission of code_execution_complete the call
\* returns.
C32_OneTerminalEvent ==
    [][\A c \in Callers :
          (req[c].stream /\ req[c].pc \in Validated) =>
              /\ req[c].pc = "e_complete" => req'[c].pc \in {"e_complete", "done"}
              /\ req'[c].pc = "done" =>
                    /\ req[c].pc \in {"e_complete", "e_error"}
                    /\ (req[c].pc = "e_complete")
                           <=> (req[c].starts > 0 /\ req[c].provider_ok)
                    /\ TerminalOf(req[c].exec) = {}
                    /\ sink' \in {sink,
                                  Append(sink,
                                         Event(IF req[c].pc = "e_complete"
                                               THEN "code_execution_complete"
                                               ELSE "code_execution_error",
                                               req[c].sid, req[c].exec, 0))}]_vars

\* A streaming execute_code call whose provider call raised is over, and its
\* only terminal event in the sink is code_execution_error.
C32_Witness ==
    \E c \in Callers :
        /\ req[c].op = "execute" /\ req[c].stream /\ req[c].pc = "done"
        /\ req[c].starts > 0 /\ ~req[c].provider_ok
        /\ Cardinality(TerminalOf(req[c].exec)) = 1
        /\ \A k \in TerminalOf(req[c].exec) : sink[k].type = "code_execution_error"

\* C33: no step of an execute_code call without streaming hands an event to
\* the sink or queues an emission task.
C33_SilentWithoutStreaming ==
    [][\A c \in Callers :
          (req[c].op = "execute" /\ ~req[c].stream /\ req'[c] # req[c])
              => (sink' = sink /\ tasks' = tasks)]_vars

\* An execute_code call without streaming has failed in its provider call,
\* and the sink holds nothing of an execution.
C33_Witness ==
    /\ \A k \in 1..Len(sink) : sink[k].type = "sandbox_created"
    /\ tasks = <<>>
    /\ \E c \in Callers :
          /\ req[c].op = "execute" /\ ~req[c].stream /\ req[c].pc = "done"
          /\ req[c].starts > 0 /\ ~req[c].provider_ok /\ req[c].ret = "raised"

\* C34: a step of an execute_code call whose code the validator rejects
\* changes no row and invokes no provider; the provider is invoked only from
\* the point that follows the activity refresh (and, when streaming, the start
\* event), that point is reached only through the refresh, and the refresh
\* that lets the call go on has set last_activity_at of the sandbox's row to
\* the current time.
C34_ValidateRefreshRun ==
    [][\A c \in Callers :
          (req[c].op = "execute" /\ req'[c] # req[c]) =>
              /\ ~validate_code(req[c].code).is_safe
                    => (table' = table /\ req'[c].starts = 0)
              /\ req'[c].starts > req[c].starts => req[c].pc = "e_run"
              /\ (req'[c].pc = "e_run" /\ req[c].pc # "e_run")
                    => req[c].pc \in {"e_touch", "e_start"}
              /\ (req'[c].pc = "e_start" /\ req[c].pc # "e_start")
                    => req[c].pc = "e_touch"
              /\ (req[c].pc = "e_touch" /\ req'[c].pc \in {"e_start", "e_run"})
                    => /\ validate_code(req[c].code).is_safe
                       /\ req[c].sid \in DOMAIN table
                             => table'[req[c].sid].last_activity_at = now]_vars

\* An execute_code call has invoked the provider on a sandbox that nobody
\* has destroyed, after time has passed, and the sandbox's row carries the
\* time of the refresh.
C34_Witness ==
    \E c \in Callers :
        /\ req[c].op = "execute" /\ req[c].pc = "done" /\ req[c].starts > 0
        /\ closeCalls[req[c].sid] = 0
        /\ now > 0
        /\ table[req[c].sid].last_activity_at = now

\* C35: the sink holds at most one sandbox_destroyed event per sandbox id,
\* and each one comes after a sandbox_created event for the same id.
C35_DestroyedOnceAfterCreated ==
    \A k \in 1..Len(sink) :
        sink[k].type = "sandbox_destroyed" =>
            /\ \E j \in 1..(k - 1) :
                  /\ sink[j].type = "sandbox_created"
                  /\ sink[j].sandbox_id = sink[k].sandbox_id
            /\ \A j \in 1..Len(sink) :
                  (sink[j].type = "sandbox_destroyed"
                      /\ sink[j].sandbox_id = sink[k].sandbox_id) => j = k

\* C36: active_sandboxes and sandbox_metadata have the same keys in every
\* state, whatever create_sandbox and destroy_sandbox calls have run, failed
\* or are under way.
C36_RegistryMapsSameKeys == active_sandboxes = DOMAIN sandbox_metadata

\* A destroy_sandbox whose close raised has returned False with its sandbox
\* in both maps, another sandbox has been destroyed and is in neither, and a
\* create_sandbox has failed.
C36_Witness ==
    /\ \E c \in Callers :
          /\ req[c].op = "destroy" /\ req[c].pc = "done" /\ req[c].ret = "False"
          /\ closeCalls[req[c].sid] >= 1
          /\ req[c].sid \in active_sandboxes
          /\ req[c].sid \in DOMAIN sandbox_metadata
    /\ \E i \in SandboxIds :
          /\ i \in DOMAIN table
          /\ i \notin active_sandboxes
          /\ i \notin DOMAIN sandbox_metadata

\* C37: every registered sandbox has a row of status running, and for every
\* owner the datastore's running count is at least the number of the
\* owner's registered sandboxes.
C37_RegisteredHaveRunningRows ==
    /\ \A i \in active_sandboxes :
          i \in DOMAIN table /\ table[i].status = "running"
    /\ \A u \in Users :
          get_user_sandbox_count(u) >=
              Cardinality({i \in active_sandboxes : sandbox_metadata[i].user_id = u})

\* One sandbox is registered with a running row while another, whose
\* destroy_sandbox removed it and then failed in the datastore update, still
\* has a running row without being registered: the running count of the
\* owner exceeds the number of the owner's registered sandboxes.
C37_Witness ==
    /\ \E i \in active_sandboxes : table[i].status = "running"
    /\ \E c \in Callers :
          /\ req[c].op = "destroy" /\ req[c].pc = "done"
          /\ req[c].removed /\ req[c].ret = "False"
          /\ req[c].sid \notin active_sandboxes
          /\ table[req[c].sid].status = "running"
          /\ get_user_sandbox_count(table[req[c].sid].user_id) >
                Cardinality({i \in active_sandboxes :
                                sandbox_metadata[i].user_id = table[req[c].sid].user_id})

\* The four tokens in the order in which both categorizers test for them.
TokenOrder == <<"integration", "functional", "security", "performance">>

\* The first token of TokenOrder found in a path, else unit.
FirstToken(test_path) ==
    LET found == {k \in 1..Len(TokenOrder) : HasToken(test_path, TokenOrder[k])} IN
    IF found = {} THEN "unit"
    ELSE TokenOrder[CHOOSE k \in found : \A j \in found : k <= j]

\* C38: categorize_test returns the first token, in the order integration,
\* functional, security, performance, that the lower-cased path contains
\* anywhere; the plugin of conftest.py returns the first token, in the same
\* order, that the path contains as written; on a path that is all lower
\* case the two agree.
C38_CategorizersAgreeOnLowerCase ==
    /\ run.category # "" => run.category = FirstToken(Lower(run.path))
    /\ run.conftest # "" => run.conftest = FirstToken(run.path)
    /\ (run.category # "" /\ run.conftest # "" /\ Lower(run.path) = run.path)
          => run.conftest = run.category

\* An all-lower-case path that holds two tokens, the later one in the order
\* first and inside a file name, has been put in the earlier category by both.
C38_Witness ==
    /\ run.path = <<"test_security.py", "integration">>
    /\ run.category = "integration"
    /\ run.conftest = "integration"
====
